---- MODULE Spec2Model ----
(***************************************************************************)
(* SimpleLang compiler (src/compiler.c): the one-pass recursive-descent    *)
(* parser and code generator, modelled at the level of tokens.             *)
(*                                                                         *)
(* The program is sequential.  Every getNextToken call site of the parser  *)
(* is one control location (pc), and one action runs the code from that    *)
(* call up to the next getNextToken call, the return into main, or         *)
(* exit(1).  Calls of compileStatement push a frame on `stack`; the        *)
(* locals of the running compileExpression call are `expr`.                *)
(*                                                                         *)
(* The character-level scanner (lines 87-161) is abstracted: the file      *)
(* delivers tokens.  printToken (stdout tracing) is not modelled.          *)
(***************************************************************************)
EXTENDS Integers, Sequences, FiniteSets, TLC

\* ------------------------------------------------------------------ limits

\* #define MAX_TOKEN_LEN 100, MAX_VARS 100, MAX_CODE_LINES 1000
MAX_TOKEN_LEN == 100
MAX_VARS == 100
MAX_CODE_LINES == 1000

\* char assembly[MAX_CODE_LINES][100]: the bytes of one line
LineSize == 100

\* Bound of the model: number of tokens an arbitrary input file may hold.
MaxTokens == 10

\* ------------------------------------------------------------------ tokens

Tok(type, text) == [type |-> type, text |-> text]

T_INT    == Tok("TOKEN_INT", "int")
T_ASSIGN == Tok("TOKEN_ASSIGN", "=")
T_PLUS   == Tok("TOKEN_PLUS", "+")
T_MINUS  == Tok("TOKEN_MINUS", "-")
T_IF     == Tok("TOKEN_IF", "if")
T_EQUAL  == Tok("TOKEN_EQUAL", "==")
T_LPAREN == Tok("TOKEN_LPAREN", "(")
T_RPAREN == Tok("TOKEN_RPAREN", ")")
T_LBRACE == Tok("TOKEN_LBRACE", "{")
T_RBRACE == Tok("TOKEN_RBRACE", "}")
T_SEMI   == Tok("TOKEN_SEMICOLON", ";")
T_EOF    == Tok("TOKEN_EOF", "")
T_UNKNOWN == Tok("TOKEN_UNKNOWN", "@")
Id(n)    == Tok("TOKEN_IDENTIFIER", n)
Num(n)   == Tok("TOKEN_NUMBER", n)

\* A local that has not been assigned yet.
NoToken  == Tok("none", "")

\* Identifier and number texts of the arbitrary input file.
Names == {"x", "y"}
Nums  == {"1", "5"}

\* Every token the scanner can produce, except end of file.
Alphabet ==
    {T_INT, T_ASSIGN, T_PLUS, T_MINUS, T_IF, T_EQUAL, T_LPAREN, T_RPAREN,
     T_LBRACE, T_RBRACE, T_SEMI, T_UNKNOWN}
    \cup {Id(n) : n \in Names} \cup {Num(n) : n \in Nums}

\* ---------------------------------------------------------- fixed programs

\* int x; x = 5; if (x == 5) { x = x + 1; }
ProgIfExample ==
    << T_INT, Id("x"), T_SEMI,
       Id("x"), T_ASSIGN, Num("5"), T_SEMI,
       T_IF, T_LPAREN, Id("x"), T_EQUAL, Num("5"), T_RPAREN, T_LBRACE,
       Id("x"), T_ASSIGN, Id("x"), T_PLUS, Num("1"), T_SEMI,
       T_RBRACE >>

\* x = 1; y = x + 2;
ProgImplicit ==
    << Id("x"), T_ASSIGN, Num("1"), T_SEMI,
       Id("y"), T_ASSIGN, Id("x"), T_PLUS, Num("2"), T_SEMI >>

\* int 5;
ProgIntFive == << T_INT, Num("5"), T_SEMI >>

\* if (x == y) { y = 1; if (y == 2) { if (x == x) { x = y - x; } ; } x = 2 + y; } if (z == 3) { }
ProgNested ==
    << T_IF, T_LPAREN, Id("x"), T_EQUAL, Id("y"), T_RPAREN, T_LBRACE,
         Id("y"), T_ASSIGN, Num("1"), T_SEMI,
         T_IF, T_LPAREN, Id("y"), T_EQUAL, Num("2"), T_RPAREN, T_LBRACE,
           T_IF, T_LPAREN, Id("x"), T_EQUAL, Id("x"), T_RPAREN, T_LBRACE,
             Id("x"), T_ASSIGN, Id("y"), T_MINUS, Id("x"), T_SEMI,
           T_RBRACE,
           T_SEMI,
         T_RBRACE,
         Id("x"), T_ASSIGN, Num("2"), T_PLUS, Id("y"), T_SEMI,
       T_RBRACE,
       T_IF, T_LPAREN, Id("z"), T_EQUAL, Num("3"), T_RPAREN, T_LBRACE, T_RBRACE >>

\* n digits
RECURSIVE Digits(_)
Digits(n) == IF n = 0 THEN "" ELSE "9" \o Digits(n - 1)

\* The longest number the scanner returns: MAX_TOKEN_LEN - 1 digits.
LongNumber == Num(Digits(MAX_TOKEN_LEN - 1))

\* x = 99...9;
ProgLongLiteral == << Id("x"), T_ASSIGN, LongNumber, T_SEMI >>

\* if (x == 99...9) { y = x - 99...9; }
ProgLongIf ==
    << T_IF, T_LPAREN, Id("x"), T_EQUAL, LongNumber, T_RPAREN, T_LBRACE,
         Id("y"), T_ASSIGN, Id("x"), T_MINUS, LongNumber, T_SEMI,
       T_RBRACE >>

\* int v1; int v2; ... int vn;
Decls(n) ==
    [i \in 1..(3 * n) |->
        CASE i % 3 = 1 -> T_INT
          [] i % 3 = 2 -> Id("v" \o ToString((i + 1) \div 3))
          [] OTHER     -> T_SEMI]

\* MAX_VARS declarations followed by one more, unseen, identifier "w" in
\* each position an identifier can take.
FullTable == Decls(MAX_VARS)
ProgFullDecl      == FullTable \o << T_INT, Id("w"), T_SEMI >>
ProgFullTargetNum == FullTable \o << Id("w"), T_ASSIGN, Num("5"), T_SEMI >>
ProgFullTargetOp  == FullTable \o << Id("w"), T_ASSIGN, Id("v1"), T_MINUS, Num("1"), T_SEMI >>
ProgFullTargetId  == FullTable \o << Id("w"), T_ASSIGN, Id("v1"), T_SEMI >>
ProgFullOperand   == FullTable \o << Id("v1"), T_ASSIGN, Id("w"), T_SEMI >>
ProgFullFirstOp   == FullTable \o << Id("v1"), T_ASSIGN, Id("w"), T_PLUS, Num("1"), T_SEMI >>
ProgFullNumRhs    == FullTable \o << Id("v1"), T_ASSIGN, Num("1"), T_PLUS, Id("w"), T_SEMI >>
ProgFullIdRhs     == FullTable \o << Id("v1"), T_ASSIGN, Id("v2"), T_MINUS, Id("w"), T_SEMI >>
ProgFullIfLhs     == FullTable \o << T_IF, T_LPAREN, Id("w"), T_EQUAL, Num("1"), T_RPAREN, T_LBRACE, T_RBRACE >>
ProgFullIfRhs     == FullTable \o << T_IF, T_LPAREN, Id("v1"), T_EQUAL, Id("w"), T_RPAREN, T_LBRACE, T_RBRACE >>
ProgFullSelf      == FullTable \o << Id("w"), T_ASSIGN, Id("w"), T_SEMI >>

\* if (x == 1) { } repeated: six lines per statement, so more than
\* MAX_CODE_LINES lines in all.
IfEmpty == << T_IF, T_LPAREN, Id("x"), T_EQUAL, Num("1"), T_RPAREN, T_LBRACE, T_RBRACE >>
LongCopies == (MAX_CODE_LINES \div 6) + 1
ProgLong == [i \in 1..(8 * LongCopies) |-> IfEmpty[((i - 1) % 8) + 1]]

Programs ==
    << ProgIfExample, ProgImplicit, ProgIntFive, ProgNested,
       ProgLongLiteral, ProgLongIf,
       ProgFullDecl, ProgFullTargetNum, ProgFullTargetOp, ProgFullTargetId,
       ProgFullOperand, ProgFullFirstOp, ProgFullNumRhs, ProgFullIdRhs,
       ProgFullIfLhs, ProgFullIfRhs, ProgFullSelf,
       ProgLong >>

\* ------------------------------------------------------------------- state

VARIABLES
    prog,            \* input.sl: 0 = an arbitrary file, k = Programs[k]
    pos,             \* tokens the scanner has taken from the file
    read,            \* those tokens, for an arbitrary file
    eof,             \* the file's end-of-file indicator
    vars,            \* Variable vars[MAX_VARS], the entries below varCount
    varCount,
    labelCount,
    currentAddress,
    assembly,        \* char assembly[MAX_CODE_LINES][100]: the rows written;
                     \* a row is its bytes up to the first NUL, LineSize
                     \* bytes when the row holds no NUL
    asmLine,
    currentToken,
    hasToken,
    pc,              \* control location
    stack,           \* frames of the active compileStatement calls
    expr,            \* locals of the active compileExpression call
    token,           \* the token the last getNextToken call returned
    name,            \* argument of the getVarAddress call that exited
    stderr,          \* the message written before exit(1) / return 1
    out,             \* output.asm
    clobbered,       \* history: ungetToken ran while a token was pending
    readAt           \* history: identifier text -> asmLine when a token
                     \* with that text was last returned by getNextToken

allVars ==
    << prog, pos, read, eof, vars, varCount, labelCount, currentAddress,
       assembly, asmLine, currentToken, hasToken, pc, stack, expr, token,
       name, stderr, out, clobbered, readAt >>

\* The globals of compiler.c as one value, threaded through the code of an
\* action.  halt = "" while running; ret is the value getVarAddress returned.
Globals ==
    [vars |-> vars, varCount |-> varCount, labelCount |-> labelCount,
     currentAddress |-> currentAddress, assembly |-> assembly,
     asmLine |-> asmLine, currentToken |-> currentToken,
     hasToken |-> hasToken, clobbered |-> clobbered,
     halt |-> "", stderr |-> stderr, name |-> name, ret |-> 0]

\* exit(1) after fprintf(stderr, msg)
Exit(g, msg) == [g EXCEPT !.halt = "exit", !.stderr = msg]

\* S; F  for code whose outcome is a set of states (emit past the buffer).
Then(S, F(_)) == UNION {F(g) : g \in S}

\* ------------------------------------------------------------------ emitter

\* rows with row i set to s; the rows never written hold no byte.
SetRow(rows, i, s) ==
    [k \in 1..(IF i > Len(rows) THEN i ELSE Len(rows)) |->
        IF k = i THEN s ELSE IF k <= Len(rows) THEN rows[k] ELSE ""]

\* vsprintf(assembly[i - 1], ...) as the bytes land in memory: a line of
\* LineSize characters or more fills its row, and the rest with the
\* terminating NUL goes to the start of the next row.
Store(rows, i, line) ==
    IF Len(line) < LineSize
    THEN SetRow(rows, i, line)
    ELSE SetRow(SetRow(rows, i, SubSeq(line, 1, LineSize)),
                i + 1, SubSeq(line, LineSize + 1, Len(line)))

\* The string printf("%s") reads at row i: up to the first NUL, which lies
\* in a later row when row i holds none.
RECURSIVE CStr(_, _)
CStr(rows, i) ==
    IF i > Len(rows) THEN ""
    ELSE IF Len(rows[i]) < LineSize THEN rows[i]
    ELSE rows[i] \o CStr(rows, i + 1)

\* void emit(fmt, ...): vsprintf(assembly[asmLine++], ...).  Neither
\* asmLine nor the length of the line is tested.  A write within the row
\* is defined.  A write that leaves the row (a line of LineSize characters
\* or more) or the array (asmLine = MAX_CODE_LINES) is undefined: the
\* bytes land in the memory that follows and the program goes on, or the
\* process ends there ("crash": a fault, a fortified vsprintf's abort, or
\* anything else; the model follows it no further).
emit(g, line) ==
    IF g.halt # "" THEN {g}
    ELSE LET stored == [g EXCEPT !.assembly = Store(@, g.asmLine + 1, line),
                                 !.asmLine = @ + 1]
         IN  IF g.asmLine < MAX_CODE_LINES /\ Len(line) < LineSize
             THEN {stored}
             ELSE {stored, [g EXCEPT !.halt = "crash"]}

\* ------------------------------------------------------------ symbol table

Lookup(g, n) == {i \in 1..g.varCount : g.vars[i].name = n}

Min(S) == CHOOSE i \in S : \A j \in S : i <= j

\* getVarAddress with the capacity test before the search of the table.
getVarAddressCapacityFirst(g, n) ==
    IF g.halt # "" THEN g
    ELSE IF g.varCount >= MAX_VARS
    THEN [Exit(g, "Error: Too many variables\n") EXCEPT !.name = n]
    ELSE IF Lookup(g, n) # {}
    THEN [g EXCEPT !.ret = g.vars[Min(Lookup(g, n))].address]
    ELSE [g EXCEPT !.vars = Append(@, [name |-> n, address |-> g.currentAddress]),
                   !.currentAddress = @ + 1,
                   !.varCount = @ + 1,
                   !.ret = g.currentAddress]

\* getVarAddress that does not advance currentAddress.
getVarAddressNoBump(g, n) ==
    IF g.halt # "" THEN g
    ELSE IF Lookup(g, n) # {}
    THEN [g EXCEPT !.ret = g.vars[Min(Lookup(g, n))].address]
    ELSE IF g.varCount >= MAX_VARS
    THEN [Exit(g, "Error: Too many variables\n") EXCEPT !.name = n]
    ELSE [g EXCEPT !.vars = Append(@, [name |-> n, address |-> g.currentAddress]),
                   !.varCount = @ + 1,
                   !.ret = g.currentAddress]

\* int getVarAddress(const char *name)
getVarAddress(g, n) ==
    IF g.halt # "" THEN g
    ELSE IF Lookup(g, n) # {}
    THEN [g EXCEPT !.ret = g.vars[Min(Lookup(g, n))].address]
    ELSE IF g.varCount >= MAX_VARS
    THEN [Exit(g, "Error: Too many variables\n") EXCEPT !.name = n]
    ELSE [g EXCEPT !.vars = Append(@, [name |-> n, address |-> g.currentAddress]),
                   !.currentAddress = @ + 1,
                   !.varCount = @ + 1,
                   !.ret = g.currentAddress]

\* emit(fmt "%d", getVarAddress(n)): the argument is evaluated first.
emitAddr(g, mnemonic, n) ==
    LET g1 == getVarAddress(g, n)
    IN  emit(g1, mnemonic \o " " \o ToString(g1.ret))

\* -------------------------------------------------------------------- lexer

\* What the scanner returns next from the file (lines 87-161).
FileNext ==
    IF eof THEN {T_EOF}
    ELSE IF prog = 0
    THEN (IF pos < MaxTokens THEN Alphabet \cup {T_EOF} ELSE {T_EOF})
    ELSE (IF pos < Len(Programs[prog]) THEN {Programs[prog][pos + 1]} ELSE {T_EOF})

\* getNextToken that leaves hasToken set.
getNextTokenKeepFlag(g) ==
    IF g.hasToken = 1
    THEN {[g |-> g, token |-> g.currentToken, file |-> FALSE]}
    ELSE {[g |-> g, token |-> t, file |-> TRUE] : t \in FileNext}

\* Token getNextToken(FILE *file): the pushed-back token first.
getNextToken(g) ==
    IF g.hasToken = 1
    THEN {[g |-> [g EXCEPT !.hasToken = 0], token |-> g.currentToken, file |-> FALSE]}
    ELSE {[g |-> g, token |-> t, file |-> TRUE] : t \in FileNext}

\* The scanner's effect on the file.
FileAdvance(r) ==
    IF ~r.file THEN UNCHANGED << pos, read, eof >>
    ELSE IF r.token.type = "TOKEN_EOF"
    THEN eof' = TRUE /\ UNCHANGED << pos, read >>
    ELSE /\ pos' = pos + 1
         /\ read' = IF prog = 0 THEN Append(read, r.token) ELSE read
         /\ eof' = eof

\* void ungetToken(Token token)
ungetToken(g, t) ==
    [g EXCEPT !.currentToken = t, !.hasToken = 1,
              !.clobbered = @ \/ (g.hasToken = 1)]

\* ------------------------------------------------------------------ frames

\* Locals of one compileStatement call that live across getNextToken calls;
\* base is the value of asmLine when the call began (history).
NewFrame(b) ==
    [var |-> "", lhs |-> NoToken, rhs |-> NoToken,
     labelTrue |-> "", labelEnd |-> "", base |-> b]

\* Locals of compileExpression.
NoExpr == [targetVar |-> "", token |-> NoToken, var |-> "", op |-> NoToken]

Top == stack[Len(stack)]
Pop == SubSeq(stack, 1, Len(stack) - 1)
SetTop(f) == [stack EXCEPT ![Len(stack)] = f]

\* Where compileStatement returns to: the loop of compile (line 431), or
\* the loop of the enclosing if block (line 399).
ReturnPc == IF Len(stack) = 1 THEN "compile" ELSE "if_body"

\* The end of an action: the globals as the code left them, and, unless the
\* process ended, the next control location with its frames.
Commit(g, r, nextPc, nextStack, nextExpr) ==
    /\ FileAdvance(r)
    /\ token' = r.token
    /\ readAt' = IF r.token.type = "TOKEN_IDENTIFIER"
                 THEN (r.token.text :> asmLine) @@ readAt
                 ELSE readAt
    /\ vars' = g.vars
    /\ varCount' = g.varCount
    /\ labelCount' = g.labelCount
    /\ currentAddress' = g.currentAddress
    /\ assembly' = g.assembly
    /\ asmLine' = g.asmLine
    /\ currentToken' = g.currentToken
    /\ hasToken' = g.hasToken
    /\ clobbered' = g.clobbered
    /\ stderr' = g.stderr
    /\ name' = g.name
    /\ pc' = IF g.halt = "" THEN nextPc ELSE g.halt
    /\ stack' = IF g.halt = "" THEN nextStack ELSE stack
    /\ expr' = IF g.halt = "" THEN nextExpr ELSE expr
    /\ UNCHANGED << prog, out >>

\* TokenType as the integer printf("%d") shows.
TypeNo(ty) ==
    CASE ty = "TOKEN_INT" -> 0 [] ty = "TOKEN_IDENTIFIER" -> 1
      [] ty = "TOKEN_NUMBER" -> 2 [] ty = "TOKEN_ASSIGN" -> 3
      [] ty = "TOKEN_PLUS" -> 4 [] ty = "TOKEN_MINUS" -> 5
      [] ty = "TOKEN_IF" -> 6 [] ty = "TOKEN_EQUAL" -> 7
      [] ty = "TOKEN_LPAREN" -> 8 [] ty = "TOKEN_RPAREN" -> 9
      [] ty = "TOKEN_LBRACE" -> 10 [] ty = "TOKEN_RBRACE" -> 11
      [] ty = "TOKEN_SEMICOLON" -> 12 [] ty = "TOKEN_EOF" -> 13
      [] OTHER -> 14

IsOperator(t) == t.type \in {"TOKEN_PLUS", "TOKEN_MINUS"}

\* (op.type == TOKEN_PLUS) ? "ADD" : "SUB"
Mnemonic(op) == IF op.type = "TOKEN_PLUS" THEN "ADD" ELSE "SUB"

\* ------------------------------------------------------------------ actions

Init ==
    /\ prog \in 0..Len(Programs)
    /\ pos = 0
    /\ read = << >>
    /\ eof = FALSE
    /\ vars = << >>
    /\ varCount = 0
    /\ labelCount = 0
    /\ currentAddress = 16
    /\ assembly = << >>
    /\ asmLine = 0
    /\ currentToken = NoToken
    /\ hasToken = 0
    /\ pc = "main"
    /\ stack = << >>
    /\ expr = NoExpr
    /\ token = NoToken
    /\ name = ""
    /\ stderr = ""
    /\ out = << >>
    /\ clobbered = FALSE
    /\ readAt = << >>

\* main, lines 441-450: fopen("input.sl") fails or compile(file) is called.
main_open ==
    /\ pc = "main"
    /\ \E ok \in BOOLEAN :
         /\ pc' = IF ok THEN "compile" ELSE "fail"
         /\ stderr' = IF ok THEN stderr ELSE "Error opening file"
    /\ UNCHANGED << prog, pos, read, eof, vars, varCount, labelCount,
                    currentAddress, assembly, asmLine, currentToken, hasToken,
                    stack, expr, token, name, out, clobbered, readAt >>

\* compile, lines 431-436: one turn of the loop.
compile ==
    /\ pc = "compile"
    /\ \E r \in getNextToken(Globals) :
         IF r.token.type = "TOKEN_EOF"
         THEN Commit(r.g, r, "write", stack, expr)
         ELSE Commit(ungetToken(r.g, r.token), r, "stmt",
                     Append(stack, NewFrame(asmLine)), expr)

\* main_write with the loop one line short.
main_writeShort ==
    /\ pc = "write"
    /\ \E ok \in BOOLEAN :
         /\ pc' = IF ok THEN "done" ELSE "fail"
         /\ stderr' = IF ok THEN stderr ELSE "Error creating output file"
         /\ out' = IF ok THEN [i \in 1..(asmLine - 1) |-> CStr(assembly, i)] ELSE out
    /\ UNCHANGED << prog, pos, read, eof, vars, varCount, labelCount,
                    currentAddress, assembly, asmLine, currentToken, hasToken,
                    stack, expr, token, name, clobbered, readAt >>

\* main, lines 451-467: output.asm is written after compile returned.
main_write ==
    /\ pc = "write"
    /\ \E ok \in BOOLEAN :
         /\ pc' = IF ok THEN "done" ELSE "fail"
         /\ stderr' = IF ok THEN stderr ELSE "Error creating output file"
         /\ out' = IF ok THEN [i \in 1..asmLine |-> CStr(assembly, i)] ELSE out
    /\ UNCHANGED << prog, pos, read, eof, vars, varCount, labelCount,
                    currentAddress, assembly, asmLine, currentToken, hasToken,
                    stack, expr, token, name, clobbered, readAt >>

\* compileStatement, lines 275-280 and the dispatch on the first token
\* (282, 302-305, 326, 412-423).
compileStatement ==
    /\ pc = "stmt"
    /\ \E r \in getNextToken(Globals) :
         LET t == r.token
             g == r.g
         IN  CASE t.type = "TOKEN_EOF" -> Commit(g, r, ReturnPc, Pop, expr)
               [] t.type = "TOKEN_INT" -> Commit(g, r, "int_id", stack, expr)
               [] t.type = "TOKEN_IDENTIFIER" ->
                    Commit(g, r, "assign", SetTop([Top EXCEPT !.var = t.text]), expr)
               [] t.type = "TOKEN_IF" -> Commit(g, r, "if_lparen", stack, expr)
               [] t.type = "TOKEN_SEMICOLON" -> Commit(g, r, ReturnPc, Pop, expr)
               [] t.type = "TOKEN_RBRACE" ->
                    Commit(ungetToken(g, t), r, ReturnPc, Pop, expr)
               [] OTHER ->
                    Commit(Exit(g, "Error: Unexpected token '" \o t.text \o "' (type: "
                                   \o ToString(TypeNo(t.type)) \o ")\n"),
                           r, pc, stack, expr)

\* compileStatement, lines 284-292: the name after 'int'.
stmt_int_ident ==
    /\ pc = "int_id"
    /\ \E r \in getNextToken(Globals) :
         IF r.token.type # "TOKEN_IDENTIFIER"
         THEN Commit(Exit(r.g, "Error: Expected identifier after 'int'\n"),
                     r, pc, stack, expr)
         ELSE Commit(getVarAddress(r.g, r.token.text), r, "int_semi", stack, expr)

\* compileStatement, lines 294-300: the ';' of a declaration.
stmt_int_semi ==
    /\ pc = "int_semi"
    /\ \E r \in getNextToken(Globals) :
         IF r.token.type # "TOKEN_SEMICOLON"
         THEN Commit(Exit(r.g, "Error: Expected ';' after variable declaration\n"),
                     r, pc, stack, expr)
         ELSE Commit(r.g, r, ReturnPc, Pop, expr)

\* compileStatement, lines 307-316: '=' and the call of compileExpression.
stmt_assign ==
    /\ pc = "assign"
    /\ \E r \in getNextToken(Globals) :
         IF r.token.type # "TOKEN_ASSIGN"
         THEN Commit(Exit(r.g, "Error: Expected '=' after identifier\n"),
                     r, pc, stack, expr)
         ELSE Commit(r.g, r, "expr", stack, [NoExpr EXCEPT !.targetVar = Top.var])

\* compileExpression, lines 199-204, 231-234, 264-267: the first operand.
compileExpression ==
    /\ pc = "expr"
    /\ \E r \in getNextToken(Globals) :
         LET t == r.token
         IN  CASE t.type = "TOKEN_NUMBER" ->
                    \E g \in emit(r.g, "LDI " \o t.text) :
                        Commit(g, r, "num_op", stack, [expr EXCEPT !.token = t])
               [] t.type = "TOKEN_IDENTIFIER" ->
                    Commit(r.g, r, "id_op", stack,
                           [expr EXCEPT !.token = t, !.var = t.text])
               [] OTHER ->
                    Commit(Exit(r.g, "Error: Expected identifier or number in expression\n"),
                           r, pc, stack, expr)

\* The second operand and the store, lines 214-223 + 229 and 246-257.
compileRhs(g, op, rhs, targetVar) ==
    LET S == CASE rhs.type = "TOKEN_NUMBER" ->
                    emit(g, Mnemonic(op) \o "I " \o rhs.text)
               [] rhs.type = "TOKEN_IDENTIFIER" ->
                    emitAddr(g, Mnemonic(op), rhs.text)
               [] OTHER ->
                    {Exit(g, "Error: Expected number or identifier after operator\n")}
    IN  Then(S, LAMBDA h : emitAddr(h, "STA", targetVar))

\* compileExpression, lines 207-210, 224-229: the token after a number.
expr_num_op ==
    /\ pc = "num_op"
    /\ \E r \in getNextToken(Globals) :
         IF IsOperator(r.token)
         THEN Commit(r.g, r, "num_rhs", stack, [expr EXCEPT !.op = r.token])
         ELSE \E g \in emitAddr(ungetToken(r.g, r.token), "STA", expr.targetVar) :
                  Commit(g, r, "asg_semi", stack, NoExpr)

\* compileExpression, lines 211-229: number, operator, second operand.
expr_num_rhs ==
    /\ pc = "num_rhs"
    /\ \E r \in getNextToken(Globals) :
         \E g \in compileRhs(r.g, expr.op, r.token, expr.targetVar) :
             Commit(g, r, "asg_semi", stack, NoExpr)

\* compileExpression, lines 236-241, 258-263: the token after an identifier.
expr_id_op ==
    /\ pc = "id_op"
    /\ \E r \in getNextToken(Globals) :
         IF IsOperator(r.token)
         THEN \E g \in emitAddr(r.g, "LDA", expr.var) :
                  Commit(g, r, "id_rhs", stack, [expr EXCEPT !.op = r.token])
         ELSE \E g \in Then(Then(emitAddr(r.g, "LDA", expr.var),
                                 LAMBDA h : emitAddr(h, "STA", expr.targetVar)),
                            LAMBDA h : {IF h.halt = "" THEN ungetToken(h, r.token) ELSE h}) :
                  Commit(g, r, "asg_semi", stack, NoExpr)

\* compileExpression, lines 243-257: identifier, operator, second operand.
expr_id_rhs ==
    /\ pc = "id_rhs"
    /\ \E r \in getNextToken(Globals) :
         \E g \in compileRhs(r.g, expr.op, r.token, expr.targetVar) :
             Commit(g, r, "asg_semi", stack, NoExpr)

\* compileStatement, lines 318-324: the ';' of an assignment.
stmt_assign_semi ==
    /\ pc = "asg_semi"
    /\ \E r \in getNextToken(Globals) :
         IF r.token.type # "TOKEN_SEMICOLON"
         THEN Commit(Exit(r.g, "Error: Expected ';' after assignment\n"),
                     r, pc, stack, expr)
         ELSE Commit(r.g, r, ReturnPc, Pop, expr)

\* compileStatement, lines 328-334: '(' after 'if'.
stmt_if_lparen ==
    /\ pc = "if_lparen"
    /\ \E r \in getNextToken(Globals) :
         IF r.token.type # "TOKEN_LPAREN"
         THEN Commit(Exit(r.g, "Error: Expected '(' after 'if'\n"),
                     r, pc, stack, expr)
         ELSE Commit(r.g, r, "if_lhs", stack, expr)

\* compileStatement, lines 337-343: the left side of the comparison.
stmt_if_lhs ==
    /\ pc = "if_lhs"
    /\ \E r \in getNextToken(Globals) :
         IF r.token.type # "TOKEN_IDENTIFIER"
         THEN Commit(Exit(r.g, "Error: Expected identifier in if condition\n"),
                     r, pc, stack, expr)
         ELSE Commit(r.g, r, "if_op", SetTop([Top EXCEPT !.lhs = r.token]), expr)

\* compileStatement, lines 346-352: '=='.
stmt_if_op ==
    /\ pc = "if_op"
    /\ \E r \in getNextToken(Globals) :
         IF r.token.type # "TOKEN_EQUAL"
         THEN Commit(Exit(r.g, "Error: Expected '==' in if condition\n"),
                     r, pc, stack, expr)
         ELSE Commit(r.g, r, "if_rhs", stack, expr)

\* compileStatement, lines 355-361: the right side of the comparison.
stmt_if_rhs ==
    /\ pc = "if_rhs"
    /\ \E r \in getNextToken(Globals) :
         IF r.token.type # "TOKEN_IDENTIFIER" /\ r.token.type # "TOKEN_NUMBER"
         THEN Commit(Exit(r.g, "Error: Expected identifier or number in if condition\n"),
                     r, pc, stack, expr)
         ELSE Commit(r.g, r, "if_rparen", SetTop([Top EXCEPT !.rhs = r.token]), expr)

\* compileStatement, lines 363-369: ')'.
stmt_if_rparen ==
    /\ pc = "if_rparen"
    /\ \E r \in getNextToken(Globals) :
         IF r.token.type # "TOKEN_RPAREN"
         THEN Commit(Exit(r.g, "Error: Expected ')' after if condition\n"),
                     r, pc, stack, expr)
         ELSE Commit(r.g, r, "if_lbrace", stack, expr)

\* ifHeader with one labelCount++ only.
ifHeaderOneLabel(g, lhs, rhs) ==
    LET labelTrue == "L" \o ToString(g.labelCount)
        labelEnd  == "L" \o ToString(g.labelCount + 1)
        g1 == [g EXCEPT !.labelCount = @ + 1]
        S1 == emitAddr(g1, "LDA", lhs.text)
        S2 == Then(S1, LAMBDA h : IF rhs.type = "TOKEN_NUMBER"
                                  THEN emit(h, "SUBI " \o rhs.text)
                                  ELSE emitAddr(h, "SUB", rhs.text))
        S3 == Then(S2, LAMBDA h : emit(h, "JZ " \o labelTrue))
        S4 == Then(S3, LAMBDA h : emit(h, "JMP " \o labelEnd))
    IN  Then(S4, LAMBDA h : emit(h, labelTrue \o ":"))

\* Lines 381-396: the two labels and the five lines of the if header.
ifHeader(g, lhs, rhs) ==
    LET labelTrue == "L" \o ToString(g.labelCount)
        labelEnd  == "L" \o ToString(g.labelCount + 1)
        g1 == [g EXCEPT !.labelCount = @ + 2]
        S1 == emitAddr(g1, "LDA", lhs.text)
        S2 == Then(S1, LAMBDA h : IF rhs.type = "TOKEN_NUMBER"
                                  THEN emit(h, "SUBI " \o rhs.text)
                                  ELSE emitAddr(h, "SUB", rhs.text))
        S3 == Then(S2, LAMBDA h : emit(h, "JZ " \o labelTrue))
        S4 == Then(S3, LAMBDA h : emit(h, "JMP " \o labelEnd))
    IN  Then(S4, LAMBDA h : emit(h, labelTrue \o ":"))

\* compileStatement, lines 371-396: '{', then the labels and the header.
stmt_if_lbrace ==
    /\ pc = "if_lbrace"
    /\ \E r \in getNextToken(Globals) :
         IF r.token.type # "TOKEN_LBRACE"
         THEN Commit(Exit(r.g, "Error: Expected '{' after if condition\n"),
                     r, pc, stack, expr)
         ELSE \E g \in ifHeader(r.g, Top.lhs, Top.rhs) :
                  Commit(g, r, "if_body",
                         SetTop([Top EXCEPT
                                   !.labelTrue = "L" \o ToString(labelCount),
                                   !.labelEnd = "L" \o ToString(labelCount + 1)]),
                         expr)

\* compileStatement, lines 399-410: one turn of the loop over the block.
stmt_if_body ==
    /\ pc = "if_body"
    /\ \E r \in getNextToken(Globals) :
         CASE r.token.type = "TOKEN_RBRACE" ->
                \E g \in emit(r.g, Top.labelEnd \o ":") :
                    Commit(g, r, ReturnPc, Pop, expr)
           [] r.token.type = "TOKEN_EOF" ->
                Commit(Exit(r.g, "Error: Unexpected EOF while parsing if block\n"),
                       r, pc, stack, expr)
           [] OTHER ->
                Commit(ungetToken(r.g, r.token), r, "stmt",
                       Append(stack, NewFrame(asmLine)), expr)

Next ==
    \/ main_open
    \/ compile
    \/ main_write
    \/ compileStatement
    \/ stmt_int_ident
    \/ stmt_int_semi
    \/ stmt_assign
    \/ compileExpression
    \/ expr_num_op
    \/ expr_num_rhs
    \/ expr_id_op
    \/ expr_id_rhs
    \/ stmt_assign_semi
    \/ stmt_if_lparen
    \/ stmt_if_lhs
    \/ stmt_if_op
    \/ stmt_if_rhs
    \/ stmt_if_rparen
    \/ stmt_if_lbrace
    \/ stmt_if_body

Spec == Init /\ [][Next]_allVars

\* The process is the only one and always takes its next step.
FairSpec == Spec /\ WF_allVars(Next)

\* ------------------------------------------------------------ claim helpers

\* The input file is the fixed program p.
IsProgram(p) == prog # 0 /\ Programs[prog] = p

\* The emitted lines as printf("%s") reads them from the buffer.
Lines == [i \in 1..asmLine |-> CStr(assembly, i)]

Terminated == pc \in {"done", "fail", "exit", "crash"}

TooManyVariables == pc = "exit" /\ stderr = "Error: Too many variables\n"

\* The tokens taken from the file so far.
Consumed == IF prog = 0 THEN read ELSE SubSeq(Programs[prog], 1, pos)

\* The grammar  program := statement* END  as a recogniser over token
\* types: the state after one more token, "dead" once no derivation has
\* the tokens read as a prefix.
GStep(st, ty) ==
    LET to(m) == [mode |-> m, depth |-> st.depth]
        operand == ty \in {"TOKEN_IDENTIFIER", "TOKEN_NUMBER"}
    IN  CASE st.mode = "stmt" /\ ty = "TOKEN_INT" -> to("int1")
          [] st.mode = "stmt" /\ ty = "TOKEN_IDENTIFIER" -> to("asg")
          [] st.mode = "stmt" /\ ty = "TOKEN_IF" -> to("if1")
          [] st.mode = "stmt" /\ ty = "TOKEN_SEMICOLON" -> to("stmt")
          [] st.mode = "stmt" /\ ty = "TOKEN_RBRACE" /\ st.depth > 0 ->
                [mode |-> "stmt", depth |-> st.depth - 1]
          [] st.mode = "int1" /\ ty = "TOKEN_IDENTIFIER" -> to("semi")
          [] st.mode = "semi" /\ ty = "TOKEN_SEMICOLON" -> to("stmt")
          [] st.mode = "asg" /\ ty = "TOKEN_ASSIGN" -> to("e1")
          [] st.mode = "e1" /\ operand -> to("e2")
          [] st.mode = "e2" /\ ty \in {"TOKEN_PLUS", "TOKEN_MINUS"} -> to("e3")
          [] st.mode = "e2" /\ ty = "TOKEN_SEMICOLON" -> to("stmt")
          [] st.mode = "e3" /\ operand -> to("semi")
          [] st.mode = "if1" /\ ty = "TOKEN_LPAREN" -> to("if2")
          [] st.mode = "if2" /\ ty = "TOKEN_IDENTIFIER" -> to("if3")
          [] st.mode = "if3" /\ ty = "TOKEN_EQUAL" -> to("if4")
          [] st.mode = "if4" /\ operand -> to("if5")
          [] st.mode = "if5" /\ ty = "TOKEN_RPAREN" -> to("if6")
          [] st.mode = "if6" /\ ty = "TOKEN_LBRACE" ->
                [mode |-> "stmt", depth |-> st.depth + 1]
          [] OTHER -> to("dead")

RECURSIVE GScan(_, _, _)
GScan(seq, i, st) ==
    IF i > Len(seq) \/ st.mode = "dead" THEN st
    ELSE GScan(seq, i + 1, GStep(st, seq[i].type))

GState(seq) == GScan(seq, 1, [mode |-> "stmt", depth |-> 0])
\* seq is a prefix of a program of the grammar / is a whole program
Viable(seq) == GState(seq).mode # "dead"
Derivable(seq) == GState(seq) = [mode |-> "stmt", depth |-> 0]

\* ------------------------------------------------------------------- claims

\* C1: every compilation ends: compile returns at end of file or the
\* process halts with a fatal error; the driver never repeats forever.
C1_CompileTerminates == <>Terminated

\* The tokens the statement parser has looked at: a token that was pushed
\* back for compileStatement to read is still to be examined.
Examined ==
    IF hasToken = 1 /\ pc \in {"stmt", "asg_semi"} /\ currentToken # T_EOF
    THEN SubSeq(Consumed, 1, Len(Consumed) - 1)
    ELSE Consumed

\* C2: a compilation completes exactly for the token sequences of the
\* grammar, and a token that fits no production halts the parser at once:
\* success only on a derivable sequence; while the parser runs, the tokens
\* it has examined are a prefix of a program; and it exits on no program
\* of the grammar.
C2_AcceptanceEqualsGrammar ==
    /\ pc \in {"write", "done"} => Derivable(Consumed)
    /\ ~Terminated /\ pc # "main" => Viable(Examined)
    /\ prog # 0 /\ pc = "exit" => ~Derivable(Programs[prog])

\* C3: the number of emitted lines never exceeds MAX_CODE_LINES, and an
\* emit on a full buffer halts with the capacity error: no line is stored
\* past the buffer and the process does not die there on the write.
C3_EmitBounded ==
    /\ asmLine <= MAX_CODE_LINES
    /\ ~(pc = "crash" /\ asmLine = MAX_CODE_LINES)

\* C4 as claimed: at the capacity halt of the symbol table no line has been
\* emitted since the token of the identifier that does not fit was read.
C4_NoLineSinceIdentifierRead ==
    TooManyVariables => asmLine = readAt[name]

\* Lines emitted between the read of the identifier that does not fit and
\* the halt, by the place of the halting getVarAddress call: `at` is the
\* control location of the step, t the token it read.
LinesBeforeCapacityHalt(at, t, n) ==
    CASE at = "int_id" -> 0
      [] at = "num_op" -> 1
      [] at = "id_op" -> IF n = expr.var THEN 0 ELSE 1
      [] at \in {"num_rhs", "id_rhs"} ->
            IF t.type = "TOKEN_IDENTIFIER" /\ t.text = n THEN 0 ELSE 2
      [] at = "if_lbrace" -> IF n = Top.lhs.text THEN 0 ELSE 1

\* C4 amended: with MAX_VARS names in the table, resolving an unseen
\* identifier halts with the capacity error before the line that would
\* carry its address is emitted.  No line lies between the read of its
\* token and the halt for the name of a declaration, an operand of an
\* expression and the left operand of an if; for an assignment target the
\* one or two lines of the expression come first, for the right operand of
\* an if the LDA of the left operand.
C4_CapacityHaltLines ==
    [][ (pc' = "exit" /\ stderr' = "Error: Too many variables\n") =>
          /\ varCount = MAX_VARS /\ varCount' = MAX_VARS /\ vars' = vars
          /\ \A i \in 1..varCount : vars[i].name # name'
          /\ pc \in {"int_id", "num_op", "id_op", "num_rhs", "id_rhs", "if_lbrace"}
          /\ asmLine' = readAt'[name'] + LinesBeforeCapacityHalt(pc, token', name')
          /\ asmLine' <= readAt'[name'] + 2
      ]_allVars

\* An assignment target that does not fit: two lines were emitted first.
C4_Witness ==
    /\ TooManyVariables
    /\ varCount = MAX_VARS
    /\ name = expr.targetVar
    /\ asmLine = readAt[name] + 2

\* C5: a compilation that halts on an error delivers nothing to
\* output.asm; the lines are written only after compile returned at the
\* end of the file, and then all of them, in order.  `int 5;` halts on the
\* token after 'int' with the expected-identifier error.
C5_NoPartialOutput ==
    /\ pc \in {"exit", "crash"} => out = << >>
    /\ out # << >> => pc = "done"
    /\ pc \in {"write", "done"} => eof /\ hasToken = 0 /\ stack = << >>
    /\ pc = "done" => out = Lines /\ Len(out) = asmLine
    /\ Terminated /\ pc # "fail" /\ IsProgram(ProgIntFive) =>
          /\ pc = "exit"
          /\ stderr = "Error: Expected identifier after 'int'\n"
          /\ token = Num("5")
          /\ out = << >>

\* A halt after lines were emitted.
C5_Witness == pc = "exit" /\ asmLine >= 2 /\ out = << >>

\* The names of the identifier tokens of a sequence.
IdNames(seq) ==
    {seq[i].text : i \in {j \in 1..Len(seq) : seq[j].type = "TOKEN_IDENTIFIER"}}

TableInv ==
    /\ varCount = Len(vars)
    /\ varCount <= MAX_VARS
    /\ currentAddress = 16 + varCount
    /\ \A i \in 1..varCount : vars[i].address = 16 + (i - 1)
    /\ \A i, j \in 1..varCount : i # j => vars[i].name # vars[j].name
    /\ pc = "compile" /\ hasToken = 0 =>
          IdNames(Consumed) = {vars[i].name : i \in 1..varCount}

\* C6: a name keeps the address it was first given, two names never share
\* an address, every name referenced by complete statements has one entry,
\* and the addresses in use are 16 .. 16+varCount-1 with currentAddress the
\* next one.
C6_AddressesInjectiveStable ==
    /\ []TableInv
    /\ [][ /\ varCount' >= varCount
           /\ \A i \in 1..varCount : vars'[i] = vars[i] ]_allVars

\* x is declared, y is not; both are used again: two entries.
C6_Witness ==
    /\ pc = "compile"
    /\ read = << T_INT, Id("x"), T_SEMI, Id("y"), T_ASSIGN, Id("x"), T_MINUS, Id("y"), T_SEMI >>
    /\ vars = << [name |-> "x", address |-> 16], [name |-> "y", address |-> 17] >>

Label(n) == "L" \o ToString(n)

\* The address the table tbl holds for name n.
AddrOf(tbl, n) == (CHOOSE e \in {tbl[i] : i \in 1..Len(tbl)} : e.name = n).address

Count(seq, ty) == Cardinality({i \in 1..Len(seq) : seq[i].type = ty})

\* The frames of the if statements whose header was accepted.
OpenIfs == {i \in 1..Len(stack) : stack[i].labelTrue # ""}

LabelInv ==
    /\ labelCount % 2 = 0
    \* two labels per accepted header, none otherwise
    /\ (~Terminated \/ pc = "done") =>
          labelCount = 2 * Count(Examined, "TOKEN_LBRACE")
    \* an open if holds the pair 2k, 2k+1, and no two ifs hold the same pair
    /\ \A i \in OpenIfs :
          \E k \in 0..((labelCount \div 2) - 1) :
              stack[i].labelTrue = Label(2 * k) /\ stack[i].labelEnd = Label(2 * k + 1)
    /\ \A i, j \in OpenIfs : i # j => stack[i].labelTrue # stack[j].labelTrue
    \* no label is defined twice in the output
    /\ LET lines == {Label(n) \o ":" : n \in 0..(labelCount - 1)}
           at == {i \in 1..Len(Lines) : Lines[i] \in lines}
       IN  Cardinality({Lines[i] : i \in at}) = Cardinality(at)

\* C7: the label counter starts at 0 and grows by 2 exactly when an if
\* header is accepted; that if takes the values 2k and 2k+1, k the number
\* of headers accepted before; no label line Ln: occurs twice.
C7_LabelsUnique ==
    /\ []LabelInv
    /\ [][ IF pc = "if_lbrace" /\ token' = T_LBRACE
           THEN /\ labelCount' = labelCount + 2
                /\ pc' = "if_body" =>
                      /\ stack'[Len(stack')].labelTrue = Label(labelCount)
                      /\ stack'[Len(stack')].labelEnd = Label(labelCount + 1)
           ELSE labelCount' = labelCount ]_allVars

\* Nested and sequential ifs: four pairs.
C7_Witness ==
    /\ pc = "done"
    /\ IsProgram(ProgNested)
    /\ labelCount = 8
    /\ Cardinality({i \in 1..Len(out) : out[i] \in {Label(n) \o ":" : n \in 0..7}}) = 8

\* The five lines of an if header, with the addresses of table tbl.
IfHeaderLines(lhs, rhs, lt, le, tbl) ==
    << "LDA " \o ToString(AddrOf(tbl, lhs.text)),
       IF rhs.type = "TOKEN_NUMBER"
       THEN "SUBI " \o rhs.text
       ELSE "SUB " \o ToString(AddrOf(tbl, rhs.text)),
       "JZ " \o lt,
       "JMP " \o le,
       lt \o ":" >>

IfExampleOutput ==
    << "LDI 5", "STA 16", "LDA 16", "SUBI 5", "JZ L0", "JMP L1", "L0:",
       "LDA 16", "ADDI 1", "STA 16", "L1:" >>

\* C8: an if emits LDA, SUBI/SUB, JZ Ltrue, JMP Lend, Ltrue:, then the
\* lines of its body, then Lend:, contiguously from the line count at its
\* start; the lines of a nested if lie between Ltrue: and Lend: of the
\* enclosing one; the example gives eleven lines.
C8_IfShape ==
    /\ [](pc = "done" /\ IsProgram(ProgIfExample) => out = IfExampleOutput)
    /\ [][ \* the header is accepted
           /\ pc = "if_lbrace" /\ pc' = "if_body" =>
                LET f == stack'[Len(stack')]
                IN  /\ f.base = asmLine
                    /\ Lines' = Lines \o
                          IfHeaderLines(f.lhs, f.rhs, f.labelTrue, f.labelEnd, vars')
           \* the closing brace
           /\ pc = "if_body" /\ token' = T_RBRACE /\ pc' \in {"compile", "if_body"} =>
                LET f == Top
                IN  /\ SubSeq(Lines', f.base + 1, f.base + 5) =
                          IfHeaderLines(f.lhs, f.rhs, f.labelTrue, f.labelEnd, vars')
                    /\ Lines' = Append(Lines, f.labelEnd \o ":")
                    /\ \A i \in 1..Len(Lines) : Lines[i] # f.labelEnd \o ":"
                    /\ Len(stack) >= 2 =>
                          LET e == stack[Len(stack) - 1]
                          IN  /\ e.base + 5 <= f.base
                              /\ Lines'[e.base + 5] = e.labelTrue \o ":"
                              /\ \A i \in 1..Len(Lines') :
                                    Lines'[i] # e.labelEnd \o ":"
         ]_allVars

NestedOutput ==
    << "LDA 16", "SUB 17", "JZ L0", "JMP L1", "L0:",
         "LDI 1", "STA 17",
         "LDA 17", "SUBI 2", "JZ L2", "JMP L3", "L2:",
           "LDA 16", "SUB 16", "JZ L4", "JMP L5", "L4:",
             "LDA 17", "SUB 16", "STA 16",
           "L5:",
         "L3:",
         "LDI 2", "ADD 17", "STA 16",
       "L1:",
       "LDA 18", "SUBI 3", "JZ L6", "JMP L7", "L6:", "L7:" >>

\* Ifs nested three deep, with bodies, compiled to the end.
C8_Witness ==
    /\ pc = "done"
    /\ IsProgram(ProgNested)
    /\ out = NestedOutput

\* The line that loads operand t / applies operator op to operand t.
LoadLine(t, tbl) ==
    IF t.type = "TOKEN_NUMBER"
    THEN "LDI " \o t.text
    ELSE "LDA " \o ToString(AddrOf(tbl, t.text))

OpLine(op, t, tbl) ==
    IF t.type = "TOKEN_NUMBER"
    THEN (IF op = T_PLUS THEN "ADDI " ELSE "SUBI ") \o t.text
    ELSE (IF op = T_PLUS THEN "ADD " ELSE "SUB ") \o ToString(AddrOf(tbl, t.text))

ImplicitOutput == << "LDI 1", "STA 16", "LDA 16", "ADDI 2", "STA 17" >>

\* C9: an assignment emits the load of its first operand, the operator
\* line if an operator follows, and STA of the target: 2 or 3 lines; a
\* declaration and a lone ';' emit none.  `x = 1; y = x + 2;` gives x 16,
\* y 17 and the five lines.
C9_AssignShape ==
    /\ [](pc = "done" /\ IsProgram(ProgImplicit) =>
            /\ out = ImplicitOutput
            /\ vars = << [name |-> "x", address |-> 16], [name |-> "y", address |-> 17] >>)
    /\ [][ \* the expression ends without an operator
           /\ pc \in {"num_op", "id_op"} /\ pc' = "asg_semi" =>
                Lines' = SubSeq(Lines, 1, Top.base) \o
                    << LoadLine(expr.token, vars'),
                       "STA " \o ToString(AddrOf(vars', expr.targetVar)) >>
           \* the expression ends after operator and second operand
           /\ pc \in {"num_rhs", "id_rhs"} /\ pc' = "asg_semi" =>
                /\ expr.op \in {T_PLUS, T_MINUS}
                /\ Lines' = SubSeq(Lines, 1, Top.base) \o
                    << LoadLine(expr.token, vars'),
                       OpLine(expr.op, token', vars'),
                       "STA " \o ToString(AddrOf(vars', expr.targetVar)) >>
           \* the rest of an assignment, a declaration, a lone ';'
           /\ pc \in {"compile", "stmt", "int_id", "int_semi", "assign", "asg_semi"} =>
                Lines' = Lines /\ asmLine' = asmLine
           /\ pc \in {"int_semi", "stmt"} /\ pc' \in {"compile", "if_body"} =>
                asmLine' = Top.base
         ]_allVars

C9_Witness ==
    /\ pc = "done"
    /\ IsProgram(ProgImplicit)
    /\ out = ImplicitOutput

\* C10: ungetToken never runs while a token is pending; a pending token is
\* what the next getNextToken returns, and nothing is taken from the file
\* then; after the first operand of an expression an operator is consumed
\* and any other token is pushed back and read by the statement as its
\* terminator.
C10_PushbackDiscipline ==
    /\ [](~clobbered /\ hasToken \in {0, 1})
    /\ [][ \* a pending token is returned, and the file is left alone
           /\ hasToken = 1 =>
                token' = currentToken /\ pos' = pos /\ read' = read /\ eof' = eof
           \* otherwise the token comes from the file
           /\ hasToken = 0 /\ pc \notin {"main", "write"} =>
                IF token' = T_EOF THEN eof' /\ pos' = pos ELSE pos' = pos + 1
           \* the token after the first operand
           /\ pc \in {"num_op", "id_op"} /\ ~Terminated' =>
                IF token'.type \in {"TOKEN_PLUS", "TOKEN_MINUS"}
                THEN hasToken' = 0 /\ pc' \in {"num_rhs", "id_rhs"}
                ELSE hasToken' = 1 /\ currentToken' = token' /\ pc' = "asg_semi"
           \* the statement reads it as its terminator
           /\ pc = "asg_semi" /\ hasToken = 1 =>
                /\ token' = currentToken
                /\ hasToken' = 0
                /\ pc' = IF currentToken = T_SEMI THEN ReturnPc ELSE "exit"
         ]_allVars

\* An expression without operator: its terminator is pending.
C10_Witness ==
    /\ pc = "asg_semi"
    /\ hasToken = 1
    /\ currentToken = T_SEMI
    /\ token = T_SEMI

====
